---- MODULE Spec2Model ----
(***************************************************************************)
(* A model of pyfleascope: the prompt-synchronised serial transport        *)
(* (serial_terminal.py), the session life cycle, the capture-timing        *)
(* quantiser and the probe (flea_scope.py), and the digital trigger        *)
(* builder and encoder (trigger_config.py).                                *)
(*                                                                         *)
(* Byte strings are sequences of one-character strings.  Durations         *)
(* (datetime.timedelta) are records [days, seconds, microseconds].         *)
(***************************************************************************)
EXTENDS Integers, Sequences, FiniteSets, TLC

VARIABLES
    \* --- exec framing on a given byte stream (SpecExec) ---
    x_pc,        \* "call" before exec, "done" after it
    x_prompt,    \* SerialTerminal._prompt
    x_stream,    \* the bytes the port delivers before the read deadline
    x_res        \* what exec did: [status, value]

execVars == <<x_pc, x_prompt, x_stream, x_res>>

VARIABLES
    \* --- transport and session life cycle (Spec) ---
    t_prompt,    \* SerialTerminal._prompt of the open terminal
    wire,        \* what the host has written and the device has not yet taken
    devOut,      \* bytes the device has produced that have not yet arrived
    rx,          \* the host's serial input buffer
    host,        \* the running library operation: [handler, prog, ip, pc, cur]
    res,         \* outcome of the last exec: [status, value]
    sess,        \* [serial, scope, garbage, sessions, ops, retries, timeouts]
    del_log,     \* the last FleaScope.__del__: [echo, prompt, exit]
    outstanding, \* history: a command was written, and neither its prompt was
                 \* read nor an interrupt sent since
    recov        \* history: timeout, then interrupt, then the next exec

termVars == <<t_prompt, wire, devOut, rx, host, res, sess, del_log,
              outstanding, recov>>

VARIABLES
    \* --- one capture request (SpecRead) ---
    r_pc,        \* "call" before the request, "done" after it
    r_op,        \* the entry point called: "raw_read" or "read"
    r_tf,        \* time_frame, a timedelta
    r_delay,     \* delay, a timedelta
    r_trig,      \* the trigger argument
    r_cal,       \* the probe's [zero, span]; <<>> is None, <<v>> is v
    r_sent,      \* the command lines this call wrote to the transport
    r_out        \* how the call ended: [status, msg, ticks, tps]

readVars == <<r_pc, r_op, r_tf, r_delay, r_trig, r_cal, r_sent, r_out>>

VARIABLES
    \* --- the digital trigger builder (SpecTrig) ---
    g_pc,        \* "none", "created", "building", "built" or "encoded"
    bit_states,  \* BitTriggerBuilder.bit_states, the list of the class
    g_err,       \* the exception the last set_bit raised, "none" if none
    g_trig,      \* the BitTrigger built: its behavior, "none" before
    g_fields     \* what into_trigger_fields returned, <<>> before

trigVars == <<g_pc, bit_states, g_err, g_trig, g_fields>>

VARIABLES
    \* --- a builder and its trigger, call by call (SpecBuild) ---
    g_call,      \* the arguments of the last set_bit: [bit, state]
    g_calls,     \* how many set_bit calls were made
    g_first      \* what the trigger's first into_trigger_fields returned

buildVars == <<g_call, g_calls, g_first>>

VARIABLES
    \* --- one probe and the instrument's flash (SpecCal) ---
    c_mult,      \* FleaProbe._multiplier
    cal_zero,    \* FleaProbe._cal_zero: <<>> is None, <<v>> is v / Scale
    cal_3v3,     \* FleaProbe._cal_3v3, likewise
    flash,       \* the instrument's stored [zero, span] for this probe
    c_op,        \* the last operation called on the probe
    c_out,       \* how it ended: [status, msg]
    c_sent,      \* the command lines it wrote to the transport
    c_window,    \* the raw readings it sampled, <<>> if it sampled none
    c_prev,      \* history: [zero, span] as they were before it
    c_before,    \* history: the operation before it, and whether that raised
    c_ops        \* how many operations were called

calVars == <<c_mult, cal_zero, cal_3v3, flash, c_op, c_out, c_sent, c_window,
             c_prev, c_before, c_ops>>

vars == <<execVars, termVars, readVars, trigVars, buildVars, calVars>>

\* what the actions of each part leave alone
nonTermVars == <<execVars, readVars, trigVars, buildVars, calVars>>
nonExecVars == <<termVars, readVars, trigVars, buildVars, calVars>>
nonReadVars == <<execVars, termVars, trigVars, buildVars, calVars>>
nonTrigVars == <<execVars, termVars, readVars, buildVars, calVars>>
nonBuildVars == <<execVars, termVars, readVars, calVars>>
nonCalVars == <<execVars, termVars, readVars, trigVars, buildVars>>

(***************************************************************************)
(* Python string primitives used by SerialTerminal.exec                    *)
(***************************************************************************)
Min(a, b) == IF a < b THEN a ELSE b

\* s[-n:] for n > 0: the last n items, the whole of s when it is shorter
LastN(s, n) == SubSeq(s, Len(s) - Min(n, Len(s)) + 1, Len(s))

\* s[:-n] for n > 0: s without its last n items, empty when it is shorter
DropLastN(s, n) == SubSeq(s, 1, Len(s) - Min(n, Len(s)))

\* str.isspace for the bytes of the model
IsSpace(c) == c \in {" ", "\n", "\r"}

\* str.strip(): leading and trailing whitespace removed
RECURSIVE lstrip(_)
lstrip(s) == IF s # <<>> /\ IsSpace(Head(s)) THEN lstrip(Tail(s)) ELSE s

RECURSIVE rstrip(_)
rstrip(s) ==
    IF s # <<>> /\ IsSpace(s[Len(s)]) THEN rstrip(SubSeq(s, 1, Len(s) - 1)) ELSE s

strip(s) == lstrip(rstrip(s))

\* bytes.endswith
EndsWith(s, t) == Len(t) <= Len(s) /\ SubSeq(s, Len(s) - Len(t) + 1, Len(s)) = t

\* The positions of buf at which a copy of expected ends
MatchEnds(buf, expected) ==
    {i \in 1..Len(buf) : EndsWith(SubSeq(buf, 1, i), expected)}

HasPrompt(buf, expected) == MatchEnds(buf, expected) # {}

\* How many bytes serial.read_until(expected) takes from buf: up to and
\* including the first copy of expected, all of buf when the deadline passes
\* without one.
ReadLen(buf, expected) ==
    IF HasPrompt(buf, expected)
    THEN CHOOSE i \in MatchEnds(buf, expected) :
             \A j \in MatchEnds(buf, expected) : i <= j
    ELSE Len(buf)

read_until(buf, expected) == SubSeq(buf, 1, ReadLen(buf, expected))

(***************************************************************************)
(* SerialTerminal.exec, after the write: the check of the response's tail  *)
(* and the value returned.                                                 *)
(***************************************************************************)
exec_check(response, prompt) ==
    IF LastN(response, 2) # prompt
    THEN [status |-> "TimeoutError", value |-> <<>>]
    ELSE [status |-> "ok", value |-> strip(DropLastN(response, 2))]

DefaultPrompt == <<">">>          \* SerialTerminal.__init__'s default
ConnectorPrompt == <<">", " ">>   \* what FleaConnector passes

(***************************************************************************)
(* The library's operations as statement lists over the terminal's         *)
(* primitives.  A statement is a flush, a send_ctrl_c, a send_reset or an  *)
(* exec of a command, with or without a timeout argument.                  *)
(***************************************************************************)
Stmt(o, c, t) == [op |-> o, cmd |-> c, timed |-> t]
Flush == Stmt("flush", "", FALSE)
CtrlC == Stmt("ctrlc", "", FALSE)
Reset == Stmt("reset", "", FALSE)
Exec(c, t) == Stmt("exec", c, t)

\* FleaConnector._get_working_serial: one round of the loop; statement 4 is
\* the except clause
get_working_serial == <<Flush, CtrlC, Exec("prompt on", TRUE), Reset>>

\* FleaConnector.connect with a port: no loop, a failure propagates
connect_port == <<Flush, CtrlC, Exec("prompt on", TRUE)>>

\* FleaProbe.read_calibration_from_flash, the commands it sends
read_calibration_from_flash(m) ==
    <<Exec(m.dim, FALSE), Exec(m.zero, FALSE), Exec(m.span, FALSE)>>

probe1 == [dim |-> "dim x1", zero |-> "print cal_zero_x1",
           span |-> "print cal_3v3_x1"]
probe10 == [dim |-> "dim x10", zero |-> "print cal_zero_x10",
            span |-> "print cal_3v3_x10"]

\* FleaScope.__init__
FleaScope_init(read_calibrations) ==
    <<CtrlC, Exec("prompt on", TRUE), Exec("echo off", FALSE),
      Exec("ver", FALSE), Exec("hostname", FALSE)>>
    \o (IF read_calibrations
        THEN read_calibration_from_flash(probe1)
             \o read_calibration_from_flash(probe10)
        ELSE <<>>)

\* FleaScope.__del__
FleaScope_del == <<Exec("echo on", FALSE), Exec("prompt on", FALSE)>>

\* FleaScope.unblock
unblock == <<CtrlC>>

\* FleaScope._raw_read
raw_read_exec == <<Exec("scope", FALSE)>>

\* FleaScope.set_waveform
set_waveform == <<Exec("wave", FALSE)>>

\* FleaProbe.write_calibration_to_flash
write_calibration_to_flash ==
    <<Exec("cal_zero =", FALSE), Exec("cal_3v3 =", FALSE)>>

\* The commands whose response the caller passes to int()
PrintCommands == {probe1.zero, probe1.span, probe10.zero, probe10.span}

\* The last command of read_calibration_from_flash, after which the decoded
\* values are compared
SpanCommands == {probe1.span, probe10.span}

UserOps ==
    {[handler |-> "unblock", prog |-> unblock],
     [handler |-> "raw_read", prog |-> raw_read_exec],
     [handler |-> "set_waveform", prog |-> set_waveform],
     [handler |-> "write_cal", prog |-> write_calibration_to_flash],
     [handler |-> "read_cal", prog |-> read_calibration_from_flash(probe1)]}

(***************************************************************************)
(* Bounds of the transport model                                           *)
(***************************************************************************)
MaxRetries == 2     \* rounds of the connector's loop after the first
MaxSessions == 2    \* FleaScope objects constructed
MaxOps == 2         \* operations called on a live session
MaxTimeouts == 2    \* read deadlines that expire

(***************************************************************************)
(* The instrument (environment): it takes what the host wrote in order,    *)
(* answers a command line with its response text followed by the prompt    *)
(* "> ", and on 0x03 or reset stops sending what it has not yet sent.      *)
(* The response text to command c is the single item c.                    *)
(***************************************************************************)
Response(c) == <<c, ">", " ">>

Prefixes(s) == {SubSeq(s, 1, n) : n \in 0..Len(s)}

DevTake ==
    /\ wire # <<>>
    /\ wire' = Tail(wire)
    /\ IF Head(wire) \in {"^C", "reset"}
       THEN devOut' \in Prefixes(devOut)
       ELSE devOut' = devOut \o Response(Head(wire))
    /\ UNCHANGED <<nonTermVars, t_prompt, rx, host, res, sess, del_log, outstanding, recov>>

DevDeliver ==
    /\ devOut # <<>>
    /\ rx' = Append(rx, Head(devOut))
    /\ devOut' = Tail(devOut)
    /\ UNCHANGED <<nonTermVars, t_prompt, wire, host, res, sess, del_log, outstanding, recov>>

(***************************************************************************)
(* The host                                                                *)
(***************************************************************************)
NoStmt == Stmt("none", "", FALSE)

IdleHost == [handler |-> "none", prog |-> <<>>, ip |-> 0, pc |-> "idle",
             cur |-> NoStmt]

NoDel == [echo |-> 0, prompt |-> 0, exit |-> "none"]

TermIdle ==
    /\ t_prompt = <<>>
    /\ wire = <<>>
    /\ devOut = <<>>
    /\ rx = <<>>
    /\ host = IdleHost
    /\ res = [status |-> "none", value |-> <<>>]
    /\ sess = [serial |-> "none", scope |-> "none", garbage |-> 0,
               sessions |-> 0, ops |-> 0, retries |-> 0, timeouts |-> 0]
    /\ del_log = NoDel
    /\ outstanding = FALSE
    /\ recov = "none"

Start(h, p) == [handler |-> h, prog |-> p, ip |-> 1, pc |-> "ready",
                cur |-> NoStmt]

\* What was written or produced before an interrupt is relabelled "stale";
\* the instrument treats every command line alike, so it does not observe it.
MarkLate(s) ==
    [i \in 1..Len(s) |->
        IF s[i] \in {"^C", "reset", ">", " "} THEN s[i] ELSE "stale"]

\* The statement after a statement that completed normally: the connector
\* breaks out of its loop after a successful exec, any other operation
\* returns after its last statement.
Returns(h) ==
    \/ h.ip = Len(h.prog)
    \/ h.handler = "connector" /\ h.prog[h.ip].op = "exec"

\* Whether the caller of exec raises ValueError on the value returned:
\* int() of a response that is not the number asked for, and, after the
\* last value of a probe is read, the comparison of the two values
\* (degenerate is whether the instrument holds equal ones).
CallerRejects(cmd, value, degenerate) ==
    \/ cmd \in PrintCommands /\ value # <<cmd>>
    \/ cmd \in SpanCommands /\ degenerate

\* The session state after operation h returned.
SessAfterReturn(h) ==
    CASE h.handler = "connector" -> [sess EXCEPT !.serial = "open"]
      [] h.handler = "connect_port" -> [sess EXCEPT !.serial = "open"]
      [] h.handler = "init" -> [sess EXCEPT !.scope = "live"]
      [] OTHER -> sess

DelAfter(h, how) ==
    IF h.handler = "del" THEN [del_log EXCEPT !.exit = how] ELSE del_log

\* Control after the current statement completed normally.
Continue ==
    IF Returns(host)
    THEN /\ host' = IdleHost
         /\ sess' = SessAfterReturn(host)
         /\ del_log' = DelAfter(host, "returned")
    ELSE /\ host' = [host EXCEPT !.ip = @ + 1, !.pc = "ready", !.cur = NoStmt]
         /\ UNCHANGED <<sess, del_log>>

\* Control after an exception: the connector catches the TimeoutError of its
\* exec, every other operation lets the exception propagate to its caller.
Raise(s) ==
    IF host.handler = "connector"
    THEN /\ host' = [host EXCEPT !.ip = @ + 1, !.pc = "ready", !.cur = NoStmt]
         /\ sess' = s
         /\ UNCHANGED del_log
    ELSE /\ host' = IdleHost
         /\ sess' = [s EXCEPT !.garbage =
                         IF host.handler = "init" THEN @ + 1 ELSE @]
         /\ del_log' = DelAfter(host, "raised")

AtStmt(o) ==
    /\ host.pc = "ready"
    /\ host.prog[host.ip].op = o

\* user code: SerialTerminal(port), with the constructor's default prompt
SerialTerminal_init ==
    /\ host.pc = "idle"
    /\ sess.serial = "none"
    /\ t_prompt' = DefaultPrompt
    /\ rx' = <<>>
    /\ sess' = [sess EXCEPT !.serial = "open"]
    /\ UNCHANGED <<nonTermVars, wire, devOut, host, res, del_log, outstanding, recov>>

\* user code: FleaConnector.connect(), without a port or with one
connect ==
    /\ host.pc = "idle"
    /\ sess.serial = "none"
    /\ t_prompt' = ConnectorPrompt
    /\ \/ host' = Start("connector", get_working_serial)
       \/ host' = Start("connect_port", connect_port)
    /\ UNCHANGED <<nonTermVars, wire, devOut, rx, res, sess, del_log, outstanding, recov>>

\* user code: FleaScope(serial, read_calibrations)
NewFleaScope ==
    /\ host.pc = "idle"
    /\ sess.serial = "open"
    /\ sess.scope = "none"
    /\ sess.sessions < MaxSessions
    /\ \E rc \in BOOLEAN : host' = Start("init", FleaScope_init(rc))
    /\ sess' = [sess EXCEPT !.sessions = @ + 1]
    /\ UNCHANGED <<nonTermVars, t_prompt, wire, devOut, rx, res, del_log, outstanding, recov>>

\* user code: an operation on the live session
CallOp ==
    /\ host.pc = "idle"
    /\ sess.scope = "live"
    /\ sess.ops < MaxOps
    /\ \E o \in UserOps : host' = Start(o.handler, o.prog)
    /\ sess' = [sess EXCEPT !.ops = @ + 1]
    /\ UNCHANGED <<nonTermVars, t_prompt, wire, devOut, rx, res, del_log, outstanding, recov>>

\* user code: the last reference to the live session is dropped
Release ==
    /\ host.pc = "idle"
    /\ sess.scope = "live"
    /\ sess' = [sess EXCEPT !.scope = "none", !.garbage = @ + 1]
    /\ UNCHANGED <<nonTermVars, t_prompt, wire, devOut, rx, host, res, del_log,
                   outstanding, recov>>

\* the interpreter finalises an unreachable FleaScope: __del__ starts
Finalize ==
    /\ host.pc = "idle"
    /\ sess.garbage > 0
    /\ host' = Start("del", FleaScope_del)
    /\ sess' = [sess EXCEPT !.garbage = @ - 1]
    /\ del_log' = [echo |-> 0, prompt |-> 0, exit |-> "running"]
    /\ UNCHANGED <<nonTermVars, t_prompt, wire, devOut, rx, res, outstanding, recov>>

\* SerialTerminal._flush, as called by SerialTerminal.__init__
flush ==
    /\ AtStmt("flush")
    /\ rx' = <<>>
    /\ Continue
    /\ UNCHANGED <<nonTermVars, t_prompt, wire, devOut, res, outstanding, recov>>

\* SerialTerminal.send_ctrl_c: write 0x03, then _flush
send_ctrl_c ==
    /\ AtStmt("ctrlc")
    /\ wire' = Append(MarkLate(wire), "^C")
    /\ devOut' = MarkLate(devOut)
    /\ rx' = <<>>
    /\ outstanding' = FALSE
    /\ recov' = IF recov = "timedout" THEN "interrupted" ELSE "none"
    /\ Continue
    /\ UNCHANGED <<nonTermVars, t_prompt, res>>

\* SerialTerminal.send_reset, then sleep(1) and the next round of the loop
send_reset ==
    /\ AtStmt("reset")
    /\ sess.retries < MaxRetries
    /\ wire' = Append(wire, "reset")
    /\ host' = [host EXCEPT !.ip = 1]
    /\ sess' = [sess EXCEPT !.retries = @ + 1]
    /\ recov' = "none"
    /\ UNCHANGED <<nonTermVars, t_prompt, devOut, rx, res, del_log, outstanding>>

\* SerialTerminal.exec up to the blocking read: the write of command + "\n"
exec_write ==
    /\ AtStmt("exec")
    /\ wire' = Append(wire, host.prog[host.ip].cmd)
    /\ host' = [host EXCEPT !.pc = "reading", !.cur = host.prog[host.ip]]
    /\ del_log' =
          IF host.handler # "del" THEN del_log
          ELSE IF host.prog[host.ip].cmd = "echo on"
               THEN [del_log EXCEPT !.echo = @ + 1]
               ELSE [del_log EXCEPT !.prompt = @ + 1]
    /\ outstanding' = TRUE
    /\ recov' = IF recov = "interrupted" THEN "exec" ELSE "none"
    /\ UNCHANGED <<nonTermVars, t_prompt, devOut, rx, res, sess>>

\* SerialTerminal.exec from the read on, when read_until finds the sentinel
exec_return ==
    /\ host.pc = "reading"
    /\ HasPrompt(rx, t_prompt)
    /\ LET n == ReadLen(rx, t_prompt)
           r == exec_check(SubSeq(rx, 1, n), t_prompt) IN
       /\ rx' = SubSeq(rx, n + 1, Len(rx))
       /\ IF r.status # "ok" THEN res' = r /\ Raise(sess)
          ELSE \E degenerate \in BOOLEAN :
                  IF CallerRejects(host.cur.cmd, r.value, degenerate)
                  THEN /\ res' = [status |-> "ValueError", value |-> r.value]
                       /\ Raise(sess)
                  ELSE res' = r /\ Continue
    /\ outstanding' = FALSE
    /\ recov' = IF recov = "exec" THEN "done" ELSE "none"
    /\ UNCHANGED <<nonTermVars, t_prompt, wire, devOut>>

\* SerialTerminal.exec from the read on, when the read deadline passes first
exec_timeout ==
    /\ host.pc = "reading"
    /\ host.cur.timed
    /\ ~HasPrompt(rx, t_prompt)
    /\ sess.timeouts < MaxTimeouts
    /\ LET r == exec_check(rx, t_prompt) IN
       /\ rx' = <<>>
       /\ res' = r
       /\ IF r.status = "ok" THEN Continue
          ELSE Raise([sess EXCEPT !.timeouts = @ + 1])
    /\ recov' = IF recov = "exec" THEN "done" ELSE "timedout"
    /\ UNCHANGED <<nonTermVars, t_prompt, wire, devOut, outstanding>>

TermNext ==
    \/ SerialTerminal_init \/ connect \/ NewFleaScope \/ CallOp \/ Release
    \/ Finalize
    \/ flush \/ send_ctrl_c \/ send_reset
    \/ exec_write \/ exec_return \/ exec_timeout
    \/ DevTake \/ DevDeliver

(***************************************************************************)
(* trigger_config.py: the trigger encoders                                 *)
(***************************************************************************)
NBits == 8      \* len(BitTriggerBuilder.bit_states)

BitState == {"POSITIVE", "NEGATIVE", "IGNORE"}

\* DigitalTriggerBehavior and AnalogTriggerBehavior: the value of a member,
\* as a string of characters
BehaviorValue(b) ==
    CASE b \in {"AUTO"} -> <<"~">>
      [] b \in {"WHILE", "LEVEL"} -> <<>>
      [] b \in {"START", "RISING"} -> <<"+">>
      [] b \in {"STOP", "FALLING"} -> <<"-">>

DigitalTriggerBehavior == {"AUTO", "WHILE", "START", "STOP"}
AnalogTriggerBehavior == {"AUTO", "LEVEL", "RISING", "FALLING"}

HexDigits == <<"0", "1", "2", "3", "4", "5", "6", "7",
               "8", "9", "a", "b", "c", "d", "e", "f">>

RECURSIVE ToHex(_)
ToHex(n) == IF n < 16 THEN <<HexDigits[n + 1]>>
            ELSE Append(ToHex(n \div 16), HexDigits[(n % 16) + 1])

\* format(n, "02x")
Format02x(n) == IF n < 16 THEN <<"0">> \o ToHex(n) ELSE ToHex(n)

RECURSIVE ToDec(_)
ToDec(n) == IF n < 10 THEN <<HexDigits[n + 1]>>
            ELSE Append(ToDec(n \div 10), HexDigits[(n % 10) + 1])

\* str(n) of an int
IntStr(n) == IF n < 0 THEN <<"-">> \o ToDec(-n) ELSE ToDec(n)

\* The loops of BitTrigger.into_trigger_fields: the OR of 1 << i over the
\* positions i (from 0) whose state is in S
RECURSIVE BitsWhere(_, _)
BitsWhere(states, S) ==
    IF states = <<>> THEN 0
    ELSE (IF Head(states) \in S THEN 1 ELSE 0) + 2 * BitsWhere(Tail(states), S)

relevant_bits_positive_only(states) == BitsWhere(states, {"POSITIVE"})

relevant_bits(states) == BitsWhere(states, BitState \ {"IGNORE"})
active_bits(states) == BitsWhere(states, {"POSITIVE"})

\* BitTrigger.into_trigger_fields
bit_into_trigger_fields(states, behavior) ==
    BehaviorValue(behavior) \o <<"0", "x">> \o Format02x(active_bits(states))
        \o <<" ", "0", "x">> \o Format02x(relevant_bits(states))

\* int(x) of the quotient num / den, den > 0: truncation toward zero
IntOf(num, den) == IF num >= 0 THEN num \div den ELSE -((-num) \div den)

(***************************************************************************)
(* flea_scope.py: the probe's calibration transform.  A calibration is     *)
(* [zero, span] with <<>> for None and <<v>> for the value v; voltages are *)
(* counted in tenths of a volt, so v / 3.3 is level10 / 33.                *)
(***************************************************************************)
CalMissing(cal) == cal.zero = <<>> \/ cal.span = <<>>

\* AnalogTrigger.into_trigger_fields(self._voltage_to_raw):
\* int(voltage_to_raw(level) / 4 + 0.5), with
\* voltage_to_raw(v) = v / 3.3 * cal_3v3 + cal_zero
analog_raw_level(level10, cal) ==
    IntOf(level10 * cal.span[1] + 33 * cal.zero[1] + 66, 132)

analog_into_trigger_fields(level10, behavior, cal) ==
    BehaviorValue(behavior) \o IntStr(analog_raw_level(level10, cal))
        \o <<" ", "0">>

(***************************************************************************)
(* flea_scope.py: the capture-timing quantiser.  A timedelta is            *)
(* [days, seconds, microseconds], normalised as datetime does:             *)
(* 0 <= seconds < 86400 and 0 <= microseconds < 1000000.                   *)
(***************************************************************************)
\* timedelta(microseconds=us), for -1000000 < us
timedelta(us) ==
    IF us >= 0
    THEN [days |-> 0, seconds |-> us \div 1000000,
          microseconds |-> us % 1000000]
    ELSE [days |-> -1, seconds |-> 86399, microseconds |-> 1000000 + us]

\* td.total_seconds() < 0
total_seconds_negative(td) == td.days < 0

\* td.total_seconds() > s, for a whole number s of seconds
total_seconds_above(td, s) ==
    \/ td.days > 0
    \/ td.days = 0 /\ td.seconds > s
    \/ td.days = 0 /\ td.seconds = s /\ td.microseconds > 0

\* FleaScope._MSPS = 120.0 * 5 / 33 = MSPS_num / MSPS_den
MSPS_num == 200
MSPS_den == 11

\* FleaScope._timedelta_to_ticks, times MSPS_den
timedelta_to_ticks_micros_only(time_frame) == time_frame.microseconds * MSPS_num

timedelta_to_ticks(time_frame) ==
    time_frame.microseconds * MSPS_num
        + time_frame.seconds * 1000000 * MSPS_num

\* FleaScope.raw_read, lines 126-136: the message of the ValueError raised,
\* "" when none is
raw_read_validate_no_delay_max(time_frame, delay) ==
    IF total_seconds_negative(time_frame)
    THEN "Time frame cannot be negative."
    ELSE IF total_seconds_above(time_frame, 2)
    THEN "Time frame too large. Max 2 seconds."
    ELSE IF time_frame.seconds = 0 /\ time_frame.microseconds < 111
    THEN "Time frame too small. Min 111 microseconds."
    ELSE IF total_seconds_negative(delay)
    THEN "Delay cannot be negative."
    ELSE ""

raw_read_validate(time_frame, delay) ==
    IF total_seconds_negative(time_frame)
    THEN "Time frame cannot be negative."
    ELSE IF total_seconds_above(time_frame, 2)
    THEN "Time frame too large. Max 2 seconds."
    ELSE IF time_frame.seconds = 0 /\ time_frame.microseconds < 111
    THEN "Time frame too small. Min 111 microseconds."
    ELSE IF total_seconds_negative(delay)
    THEN "Delay cannot be negative."
    ELSE IF total_seconds_above(delay, 1)
    THEN "Delay too large. Max 1 second."
    ELSE ""

\* int(ticks / 2000.0 + 0.5)
ticks_per_sample(time_frame) ==
    IntOf(2 * timedelta_to_ticks(time_frame) + 2000 * MSPS_den,
          2 * 2000 * MSPS_den)

\* int(delay_ticks / ticks_per_sample)
delay_samples(delay, tps) == IntOf(timedelta_to_ticks(delay), MSPS_den * tps)

Outcome(st, m, t, d, w) ==
    [status |-> st, msg |-> m, tps |-> t, delay_samples |-> d, sent |-> w]

\* FleaScope._raw_read: the command line it has the terminal write
scope_command(tick_amount, trigger_fields, delay) ==
    [cmd |-> "scope", tick_amount |-> tick_amount,
     trigger_fields |-> trigger_fields, delay |-> delay]

\* FleaScope.raw_read: how it ends and what it wrote
raw_read_checks_delay_late(time_frame, trigger_fields, delay) ==
    LET msg == raw_read_validate(time_frame, timedelta(0))
        late == raw_read_validate(time_frame, delay) IN
    IF msg # "" THEN Outcome("ValueError", msg, 0, 0, <<>>)
    ELSE LET tps == ticks_per_sample(time_frame)
             w == <<scope_command(tps, trigger_fields, 0)>> IN
         IF late # "" THEN Outcome("ValueError", late, 0, 0, w)
         ELSE LET d == delay_samples(delay, tps) IN
              Outcome("ok", "", tps, d,
                      <<scope_command(tps, trigger_fields, d)>>)

raw_read(time_frame, trigger_fields, delay) ==
    LET msg == raw_read_validate(time_frame, delay) IN
    IF msg # "" THEN Outcome("ValueError", msg, 0, 0, <<>>)
    ELSE LET tps == ticks_per_sample(time_frame) IN
         IF ~(tps > 0)
         THEN Outcome("AssertionError",
                      "Ticks per sample must be greater than 0", tps, 0, <<>>)
         ELSE LET d == delay_samples(delay, tps) IN
              Outcome("ok", "", tps, d,
                      <<scope_command(tps, trigger_fields, d)>>)

\* FleaProbe.read: how it ends and what it wrote
probe_read(time_frame, trigger, delay, cal) ==
    LET trig == IF trigger.kind = "None"
                THEN [kind |-> "analog", level10 |-> 0, behavior |-> "AUTO",
                      bits |-> <<>>]
                ELSE trigger
    IN
    IF trig.kind = "analog" /\ CalMissing(cal)
    THEN Outcome("ValueError", "Calibration values are not set.", 0, 0, <<>>)
    ELSE LET trigger_fields ==
                 IF trig.kind = "digital"
                 THEN bit_into_trigger_fields(trig.bits, trig.behavior)
                 ELSE analog_into_trigger_fields(trig.level10, trig.behavior,
                                                 cal)
             df == raw_read(time_frame, trigger_fields, delay)
         IN
         IF df.status = "ok" /\ CalMissing(cal)
         THEN [df EXCEPT !.status = "ValueError",
                         !.msg = "Calibration values are not set."]
         ELSE df

(***************************************************************************)
(* SpecRead: one capture request, for each entry point, duration, delay,   *)
(* trigger and calibration of the bounded input sets.                      *)
(***************************************************************************)
Radius == 2     \* how far around each edge the sampled durations reach

Around(c) == (c - Radius)..(c + Radius)

TimeFrames ==
    {timedelta(us) : us \in Around(0) \cup Around(111) \cup Around(20000)
                          \cup Around(1000000) \cup Around(2000000)}
    \cup {[days |-> 1, seconds |-> 0, microseconds |-> 200],
          [days |-> -1, seconds |-> 0, microseconds |-> 200]}

Delays ==
    {timedelta(us) : us \in Around(0) \cup Around(1000000)}
    \cup {timedelta(500), [days |-> 1, seconds |-> 0, microseconds |-> 0]}

AllIgnore == [i \in 1..NBits |-> "IGNORE"]

Triggers ==
    {[kind |-> "None", level10 |-> 0, behavior |-> "AUTO", bits |-> <<>>],
     [kind |-> "analog", level10 |-> 16, behavior |-> "RISING",
      bits |-> <<>>],
     [kind |-> "analog", level10 |-> -80, behavior |-> "FALLING",
      bits |-> <<>>],
     [kind |-> "digital", level10 |-> 0, behavior |-> "WHILE",
      bits |-> [AllIgnore EXCEPT ![1] = "POSITIVE", ![2] = "NEGATIVE"]]}

Calibrations ==
    {[zero |-> <<>>, span |-> <<>>], [zero |-> <<2104>>, span |-> <<>>],
     [zero |-> <<2104>>, span |-> <<1036>>]}

NoOutcome == Outcome("none", "", 0, 0, <<>>)

ReadIdle ==
    /\ r_pc = "idle"
    /\ r_op = "none"
    /\ r_tf = timedelta(0)
    /\ r_delay = timedelta(0)
    /\ r_trig = [kind |-> "None", level10 |-> 0, behavior |-> "AUTO",
                 bits |-> <<>>]
    /\ r_cal = [zero |-> <<>>, span |-> <<>>]
    /\ r_sent = <<>>
    /\ r_out = NoOutcome

ReadInit ==
    /\ r_pc = "call"
    /\ r_op \in {"raw_read", "read"}
    /\ r_tf \in TimeFrames
    /\ r_delay \in Delays
    /\ r_trig \in Triggers
    /\ r_cal \in Calibrations
    /\ r_sent = <<>>
    /\ r_out = NoOutcome

\* FleaScope.raw_read(time_frame, 0, delay), as the calibration sampling
\* calls it
CallRawRead ==
    /\ r_pc = "call"
    /\ r_op = "raw_read"
    /\ r_out' = raw_read(r_tf, <<"0">>, r_delay)
    /\ r_sent' = r_sent \o r_out'.sent
    /\ r_pc' = "done"
    /\ UNCHANGED <<r_op, r_tf, r_delay, r_trig, r_cal, nonReadVars>>

\* FleaProbe.read(time_frame, trigger, delay)
CallRead ==
    /\ r_pc = "call"
    /\ r_op = "read"
    /\ r_out' = probe_read(r_tf, r_trig, r_delay, r_cal)
    /\ r_sent' = r_sent \o r_out'.sent
    /\ r_pc' = "done"
    /\ UNCHANGED <<r_op, r_tf, r_delay, r_trig, r_cal, nonReadVars>>

ReadNext == CallRawRead \/ CallRead

(***************************************************************************)
(* SpecTrig: BitTriggerBuilder and BitTrigger.  bit_states is an attribute *)
(* of the class: every builder, and every trigger a builder makes, holds   *)
(* the one list.                                                           *)
(***************************************************************************)
TrigIdle ==
    /\ g_pc = "none"
    /\ bit_states = AllIgnore
    /\ g_err = "none"
    /\ g_trig = "none"
    /\ g_fields = <<>>

\* BitTriggerBuilder()
NewBuilder ==
    /\ g_pc \in {"none", "created", "building"}
    /\ g_pc' = "created"
    /\ g_err' = "none"
    /\ UNCHANGED <<bit_states, g_trig, g_fields, nonTrigVars>>

\* BitTriggerBuilder.set_bit(bit, state): the bound check lets bit = 8
\* through to the list assignment, which raises IndexError
set_bit ==
    /\ g_pc \in {"created", "building"}
    /\ \E bit \in -1..(NBits + 1), state \in BitState :
          IF bit < 0 \/ bit > Len(bit_states)
          THEN g_err' = "ValueError" /\ UNCHANGED bit_states
          ELSE IF bit >= Len(bit_states)
          THEN g_err' = "IndexError" /\ UNCHANGED bit_states
          ELSE /\ bit_states' = [bit_states EXCEPT ![bit + 1] = state]
               /\ g_err' = "none"
    /\ g_pc' = "building"
    /\ UNCHANGED <<g_trig, g_fields, nonTrigVars>>

\* while_matching, when_start_matching, when_stop_matching, auto:
\* BitTrigger(self.bit_states, behavior)
Build ==
    /\ g_pc \in {"created", "building"}
    /\ g_trig' \in DigitalTriggerBehavior
    /\ g_pc' = "built"
    /\ UNCHANGED <<bit_states, g_err, g_fields, nonTrigVars>>

\* BitTrigger.into_trigger_fields()
into_trigger_fields ==
    /\ g_pc = "built"
    /\ g_fields' = bit_into_trigger_fields(bit_states, g_trig)
    /\ g_pc' = "encoded"
    /\ UNCHANGED <<bit_states, g_err, g_trig, nonTrigVars>>

TrigNext == NewBuilder \/ set_bit \/ Build \/ into_trigger_fields

(***************************************************************************)
(* SpecBuild: the same classes call by call, with the arguments of each    *)
(* set_bit on record and the trigger kept after it is built, so that       *)
(* set_bit can follow the construction of the trigger.                     *)
(***************************************************************************)
MaxSetBits == 2     \* set_bit calls in one run

\* the bit indices tried: both ends of the list and the first ones past them
BitArgs == {-1, 0, NBits - 1, NBits, NBits + 1}

NoCall == [bit |-> 0, state |-> "none"]

BuildIdle ==
    /\ g_call = NoCall
    /\ g_calls = 0
    /\ g_first = <<>>

\* BitTriggerBuilder(), the first builder or another one
BuilderNew ==
    /\ g_pc' = "created"
    /\ g_err' = "none"
    /\ UNCHANGED <<bit_states, g_trig, g_fields, buildVars, nonBuildVars>>

\* BitTriggerBuilder.set_bit(bit, state), before or after a trigger was built
BuilderSetBit ==
    /\ g_pc # "none"
    /\ g_calls < MaxSetBits
    /\ \E bit \in BitArgs, state \in BitState :
          /\ g_call' = [bit |-> bit, state |-> state]
          /\ IF bit < 0 \/ bit > Len(bit_states)
             THEN g_err' = "ValueError" /\ UNCHANGED bit_states
             ELSE IF bit >= Len(bit_states)
             THEN g_err' = "IndexError" /\ UNCHANGED bit_states
             ELSE /\ bit_states' = [bit_states EXCEPT ![bit + 1] = state]
                  /\ g_err' = "none"
    /\ g_calls' = g_calls + 1
    /\ g_pc' = "building"
    /\ UNCHANGED <<g_trig, g_fields, g_first, nonBuildVars>>

\* while_matching, when_start_matching, when_stop_matching, auto:
\* BitTrigger(self.bit_states, behavior) keeps the list it is given
BuilderBuild ==
    /\ g_pc \in {"created", "building"}
    /\ g_trig = "none"
    /\ g_trig' \in DigitalTriggerBehavior
    /\ g_pc' = "built"
    /\ UNCHANGED <<bit_states, g_err, g_fields, buildVars, nonBuildVars>>

\* BitTrigger.into_trigger_fields(), as often as the caller likes
TriggerFields ==
    /\ g_trig # "none"
    /\ g_fields' = bit_into_trigger_fields(bit_states, g_trig)
    /\ g_first' = IF g_first = <<>> THEN g_fields' ELSE g_first
    /\ g_pc' = "encoded"
    /\ UNCHANGED <<bit_states, g_err, g_trig, g_call, g_calls, nonBuildVars>>

BuildNext == BuilderNew \/ BuilderSetBit \/ BuilderBuild \/ TriggerFields

(***************************************************************************)
(* SpecCal: the calibration of one probe.  Calibration values are floats   *)
(* in the code; here a value v is the integer v * Scale, which is exact    *)
(* for the means of two readings and for the tenths that the x10 probe's   *)
(* division by its multiplier produces.                                    *)
(***************************************************************************)
MaxCalOps == 3      \* operations called on the probe in one run

Scale == 20

\* int(s) of a decimal numeral with an optional sign
DigitValue(c) == CHOOSE n \in 0..9 : HexDigits[n + 1] = c

RECURSIVE ParseDigits(_)
ParseDigits(s) ==
    IF s = <<>> THEN 0
    ELSE 10 * ParseDigits(SubSeq(s, 1, Len(s) - 1)) + DigitValue(s[Len(s)])

ParseInt(s) == IF s[1] = "-" THEN -ParseDigits(Tail(s)) ELSE ParseDigits(s)

RECURSIVE SeqSum(_)
SeqSum(w) == IF w = <<>> THEN 0 ELSE Head(w) + SeqSum(Tail(w))

SeqMax(w) == CHOOSE x \in {w[i] : i \in 1..Len(w)} :
                 \A j \in 1..Len(w) : w[j] <= x
SeqMin(w) == CHOOSE x \in {w[i] : i \in 1..Len(w)} :
                 \A j \in 1..Len(w) : w[j] >= x

\* bnc_data.mean(), times Scale
Mean(w) == (SeqSum(w) * Scale) \div Len(w)

CalOut(st, m) == [status |-> st, msg |-> m]

\* The capture of FleaProbe.read_stable_value_for_calibration:
\* raw_read(timedelta(milliseconds=20), 0)
stable_capture == raw_read(timedelta(20000), <<"0">>, timedelta(0))

\* FleaProbe.read_stable_value_for_calibration on the window w: the
\* exception it raises, or the mean it returns
read_stable_value_inclusive(w) ==
    IF SeqMax(w) - SeqMin(w) >= 14
    THEN [out |-> CalOut("ValueError",
                         "Signal is not stable enough for calibration."),
          value |-> 0]
    ELSE [out |-> CalOut("ok", ""), value |-> Mean(w)]

read_stable_value_for_calibration(w) ==
    IF SeqMax(w) - SeqMin(w) > 14
    THEN [out |-> CalOut("ValueError",
                         "Signal is not stable enough for calibration."),
          value |-> 0]
    ELSE [out |-> CalOut("ok", ""), value |-> Mean(w)]

\* What an operation does to the probe: the new calibration, how it ended
\* and what it wrote
Effect(zero, span, out, sent) ==
    [zero |-> zero, span |-> span, out |-> out, sent |-> sent]

\* FleaProbe.calibrate_0, the capture having returned the window w
calibrate_0_on(zero, span, w) ==
    LET r == read_stable_value_for_calibration(w) IN
    IF r.out.status # "ok" THEN Effect(zero, span, r.out, stable_capture.sent)
    ELSE Effect(<<r.value>>, span, r.out, stable_capture.sent)

\* FleaProbe.calibrate_3v3, the capture (if it gets that far) returning w
calibrate_3v3_unguarded(zero, span, w) ==
    LET r == read_stable_value_for_calibration(w)
        z == IF zero = <<>> THEN 0 ELSE zero[1] IN
    IF r.out.status # "ok" THEN Effect(zero, span, r.out, stable_capture.sent)
    ELSE Effect(zero, <<r.value - z>>, r.out, stable_capture.sent)

calibrate_3v3_on(zero, span, w) ==
    IF zero = <<>>
    THEN Effect(zero, span,
                CalOut("ValueError", "Zero-Calibration needs to be done first."),
                <<>>)
    ELSE LET r == read_stable_value_for_calibration(w) IN
         IF r.out.status # "ok"
         THEN Effect(zero, span, r.out, stable_capture.sent)
         ELSE Effect(zero, <<r.value - zero[1]>>, r.out, stable_capture.sent)

\* A calibration operation whose capture raised in exec
capture_raised(zero, span) ==
    Effect(zero, span, CalOut("TimeoutError", ""), stable_capture.sent)

\* The command lines of the two flash operations
FlashCmd(c, arg) == [cmd |-> c, arg |-> arg]

\* FleaProbe.write_calibration_to_flash: the two assignments it sends,
\* int(cal_zero - 2048 + 1000 + 0.5) and int(cal_3v3 * multiplier + 1000 + 0.5)
stored_zero(zero) == IntOf(2 * zero[1] + (1 - 2 * 1048) * Scale, 2 * Scale)
stored_span(span, mult) == IntOf(2 * span[1] * mult + 2001 * Scale, 2 * Scale)

write_calibration_commands(zero, span, mult) ==
    IF zero = <<>> \/ span = <<>> THEN <<>>
    ELSE <<FlashCmd("cal_zero =", IntStr(stored_zero(zero))),
           FlashCmd("cal_3v3 =", IntStr(stored_span(span, mult)))>>

\* The instrument keeps the integers assigned to its flash variables and
\* prints them on request
FlashAfter(f, cmds) ==
    [zero |-> IF \E i \in 1..Len(cmds) : cmds[i].cmd = "cal_zero ="
              THEN ParseInt(cmds[1].arg) ELSE f.zero,
     span |-> IF \E i \in 1..Len(cmds) : cmds[i].cmd = "cal_3v3 ="
              THEN ParseInt(cmds[2].arg) ELSE f.span]

PrintOf(n) == IntStr(n)

\* FleaProbe.read_calibration_from_flash against the flash f, its exec
\* number fail (1 for dim, 2 and 3 for the prints) raising, 0 for none
ReadCmds == <<FlashCmd("dim", <<>>), FlashCmd("print cal_zero", <<>>),
              FlashCmd("print cal_3v3", <<>>)>>

read_calibration_on(zero, span, mult, f, fail) ==
    LET z == <<(ParseInt(PrintOf(f.zero)) - 1000 + 2048) * Scale>>
        sp == <<((ParseInt(PrintOf(f.span)) - 1000) * Scale) \div mult>>
        raised == CalOut("TimeoutError", "")
    IN
    IF fail = 1 THEN Effect(zero, span, raised, SubSeq(ReadCmds, 1, 1))
    ELSE IF fail = 2 THEN Effect(zero, span, raised, SubSeq(ReadCmds, 1, 2))
    ELSE IF fail = 3 THEN Effect(z, span, raised, ReadCmds)
    ELSE IF z = sp
    THEN Effect(z, sp, CalOut("ValueError", "Calibration values are equal."),
                ReadCmds)
    ELSE Effect(z, sp, CalOut("ok", ""), ReadCmds)

\* the inputs
Windows == {<<2104, 2104>>, <<2097, 2111>>, <<2097, 2112>>, <<2111, 2112>>,
            <<3140, 3140>>}
SetCalArgs == {<<2104, 1036>>, <<1040, -1200>>, <<1036, 1036>>}
FlashValues == {[zero |-> 1056, span |-> 2036], [zero |-> 0, span |-> 2048],
                [zero |-> 0, span |-> 11480]}

NoBefore == [op |-> "none", raised |-> FALSE]

CalIdle ==
    /\ c_mult = 1
    /\ cal_zero = <<>>
    /\ cal_3v3 = <<>>
    /\ flash = [zero |-> 0, span |-> 0]
    /\ c_op = "none"
    /\ c_out = CalOut("none", "")
    /\ c_sent = <<>>
    /\ c_window = <<>>
    /\ c_prev = [zero |-> <<>>, span |-> <<>>]
    /\ c_before = NoBefore
    /\ c_ops = 0

\* FleaProbe(scope, multiplier) for probe1 and probe10, over an instrument
\* whose flash holds some earlier calibration
CalInit ==
    /\ c_mult \in {1, 10}
    /\ cal_zero = <<>>
    /\ cal_3v3 = <<>>
    /\ flash \in FlashValues
    /\ c_op = "none"
    /\ c_out = CalOut("none", "")
    /\ c_sent = <<>>
    /\ c_window = <<>>
    /\ c_prev = [zero |-> <<>>, span |-> <<>>]
    /\ c_before = NoBefore
    /\ c_ops = 0

\* the bookkeeping of one operation op with the effect e
Applied(op, e, w) ==
    /\ c_ops < MaxCalOps
    /\ c_ops' = c_ops + 1
    /\ c_prev' = [zero |-> cal_zero, span |-> cal_3v3]
    /\ c_before' = [op |-> c_op, raised |-> c_out.status \notin {"ok", "none"}]
    /\ c_op' = op
    /\ cal_zero' = e.zero
    /\ cal_3v3' = e.span
    /\ c_out' = e.out
    /\ c_sent' = e.sent
    /\ c_window' = w
    /\ UNCHANGED <<c_mult, nonCalVars>>

\* FleaProbe.set_calibration(offset_0, offset_3v3)
set_calibration ==
    \E a \in SetCalArgs :
        /\ Applied("set_calibration",
                   Effect(<<a[1] * Scale>>, <<a[2] * Scale>>, CalOut("ok", ""),
                          <<>>), <<>>)
        /\ UNCHANGED flash

\* FleaProbe.calibrate_0()
calibrate_0 ==
    /\ \/ \E w \in Windows :
             Applied("calibrate_0", calibrate_0_on(cal_zero, cal_3v3, w), w)
       \/ Applied("calibrate_0", capture_raised(cal_zero, cal_3v3), <<>>)
    /\ UNCHANGED flash

\* FleaProbe.calibrate_3v3()
calibrate_3v3 ==
    /\ \/ \E w \in Windows :
             LET e == calibrate_3v3_on(cal_zero, cal_3v3, w) IN
             Applied("calibrate_3v3", e, IF e.sent = <<>> THEN <<>> ELSE w)
       \/ /\ cal_zero # <<>>
          /\ Applied("calibrate_3v3", capture_raised(cal_zero, cal_3v3), <<>>)
    /\ UNCHANGED flash

\* FleaProbe.read_calibration_from_flash()
ProbeReadCalibration ==
    /\ \E fail \in 0..3 :
          Applied("read_calibration_from_flash",
                  read_calibration_on(cal_zero, cal_3v3, c_mult, flash, fail),
                  <<>>)
    /\ UNCHANGED flash

\* FleaProbe.write_calibration_to_flash()
ProbeWriteCalibration ==
    LET cmds == write_calibration_commands(cal_zero, cal_3v3, c_mult) IN
    /\ Applied("write_calibration_to_flash",
               Effect(cal_zero, cal_3v3,
                      IF cmds = <<>>
                      THEN CalOut("ValueError",
                                  "Calibration values are not set.")
                      ELSE CalOut("ok", ""),
                      cmds), <<>>)
    /\ flash' = FlashAfter(flash, cmds)

CalNext ==
    \/ set_calibration
    \/ calibrate_0
    \/ calibrate_3v3
    \/ ProbeReadCalibration
    \/ ProbeWriteCalibration

(***************************************************************************)
(* SpecExec: exec applied to every short byte stream, for each sentinel.   *)
(***************************************************************************)
MaxStream == 4

Alphabet == {"x", " ", "\n", ">"}

Prompts == {DefaultPrompt, ConnectorPrompt, <<"x", ">", " ">>}

Streams == UNION {[1..n -> Alphabet] : n \in 0..MaxStream}

NoResult == [status |-> "none", value |-> <<>>]

ExecIdle ==
    /\ x_pc = "idle"
    /\ x_prompt = <<>>
    /\ x_stream = <<>>
    /\ x_res = NoResult

ExecInit ==
    /\ x_pc = "call"
    /\ x_prompt \in Prompts
    /\ x_stream \in Streams
    /\ x_res = NoResult

ExecCall ==
    /\ x_pc = "call"
    /\ x_res' = exec_check(read_until(x_stream, x_prompt), x_prompt)
    /\ x_pc' = "done"
    /\ UNCHANGED <<x_prompt, x_stream, nonExecVars>>

ExecNext == ExecCall

(***************************************************************************)
(* Specifications                                                          *)
(***************************************************************************)
Init == TermIdle /\ ExecIdle /\ ReadIdle /\ TrigIdle /\ BuildIdle
    /\ CalIdle

Next == TermNext

Spec == Init /\ [][Next]_vars

InitExec == ExecInit /\ TermIdle /\ ReadIdle /\ TrigIdle /\ BuildIdle
    /\ CalIdle

SpecExec == InitExec /\ [][ExecNext]_vars

InitRead == ReadInit /\ TermIdle /\ ExecIdle /\ TrigIdle /\ BuildIdle
    /\ CalIdle

SpecRead == InitRead /\ [][ReadNext]_vars

InitTrig == TrigIdle /\ TermIdle /\ ExecIdle /\ ReadIdle /\ BuildIdle
    /\ CalIdle

SpecTrig == InitTrig /\ [][TrigNext]_vars

InitBuild == TrigIdle /\ BuildIdle /\ TermIdle /\ ExecIdle /\ ReadIdle
    /\ CalIdle

SpecBuild == InitBuild /\ [][BuildNext]_vars

InitCal == CalInit /\ TermIdle /\ ExecIdle /\ ReadIdle /\ TrigIdle /\ BuildIdle

SpecCal == InitCal /\ [][CalNext]_vars

(***************************************************************************)
(* The claims                                                              *)
(***************************************************************************)
\* C1: exec succeeds exactly when the bytes read end with the configured
\* sentinel, and then returns them without the whole sentinel and without
\* surrounding whitespace; otherwise it fails with TimeoutError.
C1_ExecFraming ==
    x_pc = "done" =>
        LET r == read_until(x_stream, x_prompt) IN
        /\ (x_res.status = "ok") <=> EndsWith(r, x_prompt)
        /\ (x_res.status # "ok") => x_res.status = "TimeoutError"
        /\ (x_res.status = "ok") =>
               x_res.value = strip(SubSeq(r, 1, Len(r) - Len(x_prompt)))

C3_TeardownRestores ==
    del_log.exit \in {"returned", "raised"} =>
        /\ del_log.echo = 1
        /\ del_log.prompt = 1
        /\ del_log.exit = "returned"

\* C4: the library never writes a command while a previous command is
\* outstanding (its prompt not read, and no interrupt sent since).
HostWritesCommand ==
    /\ Len(wire') = Len(wire) + 1
    /\ wire'[Len(wire')] # "^C"

C4_OneOutstandingCommand == [][HostWritesCommand => ~outstanding]_vars

\* C5: every exec the library issues carries a finite timeout, so a read
\* never waits without a deadline.
C5_EveryExecTimed == host.pc = "reading" => host.cur.timed

\* A timedelta of less than a day, in microseconds
Micros(td) == td.seconds * 1000000 + td.microseconds

BoundsMessages ==
    {"Time frame cannot be negative.", "Time frame too large. Max 2 seconds.",
     "Time frame too small. Min 111 microseconds.",
     "Delay cannot be negative.", "Delay too large. Max 1 second."}

DelayOutside(td) == td.days # 0 \/ Micros(td) > 1000000

\* C6 as stated: a duration outside (111 us, 2 s], 111 us itself included,
\* or a delay outside [0, 1 s], makes the capture request fail with
\* ValueError.
C6_RejectsOutsideOpenInterval ==
    (/\ r_pc = "done"
     /\ \/ r_tf.days # 0 \/ Micros(r_tf) <= 111 \/ Micros(r_tf) > 2000000
        \/ DelayOutside(r_delay))
    => r_out.status = "ValueError"

\* C6 as amended: a duration outside [111 us, 2 s] or a delay outside
\* [0, 1 s] makes the capture request fail with ValueError, carrying one of
\* the bounds messages when the request reached raw_read.
C6_RejectsOutsideClosedInterval ==
    (/\ r_pc = "done"
     /\ \/ r_tf.days # 0 \/ Micros(r_tf) < 111 \/ Micros(r_tf) > 2000000
        \/ DelayOutside(r_delay))
    => /\ r_out.status = "ValueError"
       /\ r_op = "raw_read" => r_out.msg \in BoundsMessages

C6_Witness ==
    /\ r_pc = "done"
    /\ r_op = "raw_read"
    /\ r_tf = timedelta(110)
    /\ r_delay = timedelta(0)
    /\ r_out.status = "ValueError"
    /\ r_out.msg = "Time frame too small. Min 111 microseconds."

\* C7: a capture request rejected for its duration or delay has written
\* nothing to the transport and has left the calibration as it was.
C7_RejectedWritesNothing ==
    [][(r_out'.status = "ValueError" /\ r_out'.msg \in BoundsMessages)
        => (r_sent' = r_sent /\ r_cal' = r_cal)]_vars

C7_Witness ==
    /\ r_pc = "done"
    /\ r_op = "read"
    /\ r_cal.span # <<>>
    /\ r_out.status = "ValueError"
    /\ r_out.msg = "Delay too large. Max 1 second."
    /\ r_sent = <<>>

\* C8: for a duration that passes the validation, ticks_per_sample is
\* positive, the assertion does not fail, and toTicks is smaller than that
\* of every longer accepted duration.
C8_TicksPositiveAndIncreasing ==
    (/\ r_pc = "done"
     /\ r_op = "raw_read"
     /\ raw_read_validate(r_tf, r_delay) = "")
    => /\ r_out.status = "ok"
       /\ r_out.tps > 0
       /\ \A d \in TimeFrames :
             (raw_read_validate(d, r_delay) = "" /\ Micros(r_tf) < Micros(d))
             => timedelta_to_ticks(r_tf) < timedelta_to_ticks(d)

C8_Witness ==
    /\ r_pc = "done"
    /\ r_op = "raw_read"
    /\ r_tf = timedelta(111)
    /\ r_out.status = "ok"
    /\ r_out.tps = 1
    /\ r_sent # <<>>

\* Reading the trigger fields back: the flag, then "0x" and the active mask
\* in hex, a space, "0x" and the relevant mask in hex.
HexValue(c) == CHOOSE n \in 0..15 : HexDigits[n + 1] = c

RECURSIVE ParseHex(_)
ParseHex(s) ==
    IF s = <<>> THEN 0
    ELSE 16 * ParseHex(SubSeq(s, 1, Len(s) - 1)) + HexValue(s[Len(s)])

FlagOf(s) == IF s # <<>> /\ s[1] \in {"~", "+", "-"} THEN <<s[1]>> ELSE <<>>

WellFormedFields(s) ==
    LET t == SubSeq(s, Len(FlagOf(s)) + 1, Len(s)) IN
    /\ Len(t) = 9
    /\ SubSeq(t, 1, 2) = <<"0", "x">>
    /\ SubSeq(t, 5, 7) = <<" ", "0", "x">>
    /\ \A i \in {3, 4, 8, 9} : \E n \in 0..15 : HexDigits[n + 1] = t[i]

ActiveOf(s) ==
    ParseHex(SubSeq(s, Len(FlagOf(s)) + 3, Len(FlagOf(s)) + 4))

RelevantOf(s) ==
    ParseHex(SubSeq(s, Len(FlagOf(s)) + 8, Len(FlagOf(s)) + 9))

BitOf(n, i) == (n \div (2 ^ i)) % 2

DecodeBits(s) ==
    [i \in 1..NBits |->
        IF BitOf(RelevantOf(s), i - 1) = 0 THEN "IGNORE"
        ELSE IF BitOf(ActiveOf(s), i - 1) = 1 THEN "POSITIVE"
        ELSE "NEGATIVE"]

\* C9: the fields a digital trigger emits are the behavior's flag followed
\* by the two masks as two hex digits each, and decoding the masks gives
\* back the state of every bit.
C9_DigitalFieldsRoundTrip ==
    g_pc = "encoded" =>
        /\ WellFormedFields(g_fields)
        /\ FlagOf(g_fields) = BehaviorValue(g_trig)
        /\ DecodeBits(g_fields) = bit_states
        /\ \A i \in 0..(NBits - 1) :
              BitOf(ActiveOf(g_fields), i) = 1
                  => BitOf(RelevantOf(g_fields), i) = 1

C9_Witness ==
    /\ g_pc = "encoded"
    /\ g_trig = "WHILE"
    /\ bit_states = [AllIgnore EXCEPT ![1] = "POSITIVE", ![2] = "NEGATIVE"]
    /\ g_fields = <<"0", "x", "0", "1", " ", "0", "x", "0", "3">>

\* C10: a builder that has just been created has all 8 bits IGNORE, whatever
\* was set on builders created before it.
C10_NewBuilderAllIgnore == g_pc = "created" => bit_states = AllIgnore

\* C11: once a trigger is built, its into_trigger_fields returns the same
\* string every time, whatever set_bit calls are made on any builder in
\* between.
C11_TriggerImmutable == g_first # <<>> => g_fields = g_first

\* C12: whenever both calibration values of a probe are set, they differ.
C12_CalibrationNeverDegenerate ==
    (cal_zero # <<>> /\ cal_3v3 # <<>>) => cal_zero # cal_3v3

\* C13: calibrate_3v3 succeeds only when cal_zero was set before the call,
\* and then cal_3v3 is the mean of the sampled window minus cal_zero; when
\* cal_zero is unset it raises the zero-first ValueError, writes no capture
\* command and leaves cal_3v3 as it was.
C13_SpanNeedsZero ==
    c_op = "calibrate_3v3" =>
        /\ c_out.status = "ok" =>
               /\ c_prev.zero # <<>>
               /\ c_window # <<>>
               /\ cal_3v3 # <<>>
               /\ (cal_3v3[1] + c_prev.zero[1]) * Len(c_window)
                      = SeqSum(c_window) * Scale
        /\ c_prev.zero = <<>> =>
               /\ c_out = CalOut("ValueError",
                                 "Zero-Calibration needs to be done first.")
               /\ c_sent = <<>>
               /\ cal_3v3 = c_prev.span

C13_Witness ==
    /\ c_op = "calibrate_3v3"
    /\ c_out.status = "ok"
    /\ c_prev.zero = <<2104 * Scale>>
    /\ c_window = <<3140, 3140>>
    /\ cal_3v3 = <<1036 * Scale>>
    /\ c_sent # <<>>

\* C14: for integer cal_zero and integer cal_3v3 * multiplier that differ,
\* write_calibration_to_flash followed by read_calibration_from_flash gives
\* back the same cal_zero and cal_3v3.
C14_FlashRoundTrip ==
    (/\ c_op = "read_calibration_from_flash"
     /\ c_before = [op |-> "write_calibration_to_flash", raised |-> FALSE]
     /\ c_out.status # "TimeoutError"
     /\ c_prev.zero[1] % Scale = 0
     /\ (c_prev.span[1] * c_mult) % Scale = 0
     /\ c_prev.zero # c_prev.span)
    => /\ c_out.status = "ok"
       /\ cal_zero = c_prev.zero
       /\ cal_3v3 = c_prev.span

\* C17: a calibration operation that sampled a window raises the
\* unstable-signal ValueError exactly when the window's maximum exceeds
\* its minimum by more than 14, and then leaves both calibration values as
\* they were; otherwise it succeeds and the point it takes is the mean of
\* the window.
C17_UnstableExactlyAbove14 ==
    (c_op \in {"calibrate_0", "calibrate_3v3"} /\ c_window # <<>>) =>
        LET spread == SeqMax(c_window) - SeqMin(c_window)
            unstable == CalOut("ValueError",
                               "Signal is not stable enough for calibration.")
        IN
        /\ (c_out = unstable) <=> (spread > 14)
        /\ spread > 14 => (cal_zero = c_prev.zero /\ cal_3v3 = c_prev.span)
        /\ spread <= 14 =>
               /\ c_out.status = "ok"
               /\ c_op = "calibrate_0" =>
                      /\ cal_zero # <<>>
                      /\ cal_zero[1] * Len(c_window) = SeqSum(c_window) * Scale
               /\ c_op = "calibrate_3v3" =>
                      /\ cal_3v3 # <<>>
                      /\ (cal_3v3[1] + c_prev.zero[1]) * Len(c_window)
                             = SeqSum(c_window) * Scale

C17_Witness ==
    /\ c_op = "calibrate_0"
    /\ c_window = <<2097, 2111>>
    /\ c_out.status = "ok"
    /\ cal_zero = <<2104 * Scale>>

\* C19: a read_calibration_from_flash that raises, for whatever reason,
\* leaves cal_zero and cal_3v3 as they were before the call.
C19_FailedReadLeavesCalibration ==
    (c_op = "read_calibration_from_flash" /\ c_out.status # "ok")
    => (cal_zero = c_prev.zero /\ cal_3v3 = c_prev.span)

Abs(n) == IF n < 0 THEN -n ELSE n

\* n is the quotient num / den, den > 0, rounded to a nearest integer
IsNearest(n, num, den) == 2 * Abs(num - den * n) <= den

\* C15: the delay field of an emitted capture command is the quotient
\* toTicks(delay) / ticksPerSample rounded to the nearest integer.
C15_DelaySamplesRounded ==
    (r_pc = "done" /\ r_sent # <<>>) =>
        IsNearest(r_sent[1].delay, timedelta_to_ticks(r_delay),
                  MSPS_den * r_sent[1].tick_amount)

\* C16: on a calibrated probe, read with an analog trigger emits the flag of
\* its behavior, voltage_to_raw(level) / 4 rounded to the nearest integer,
\* and " 0"; read with no trigger emits "~", cal_zero / 4 rounded to the
\* nearest integer, and " 0".
C16_AnalogFieldsRounded ==
    (/\ r_pc = "done"
     /\ r_op = "read"
     /\ r_trig.kind \in {"analog", "None"}
     /\ ~CalMissing(r_cal)
     /\ r_sent # <<>>)
    => LET level10 == IF r_trig.kind = "None" THEN 0 ELSE r_trig.level10
           flag == IF r_trig.kind = "None" THEN <<"~">>
                   ELSE BehaviorValue(r_trig.behavior)
           num == level10 * r_cal.span[1] + 33 * r_cal.zero[1]
           lo == IntOf(num, 132) - 1
       IN  \E n \in lo..(lo + 2) :
              /\ IsNearest(n, num, 132)
              /\ r_sent[1].trigger_fields = flag \o IntStr(n) \o <<" ", "0">>

\* C18: read with an acceptable duration and delay on a probe that lacks
\* cal_zero or cal_3v3 raises the calibration-missing ValueError and has
\* written no capture command, whichever trigger it is given.
C18_UncalibratedReadWritesNothing ==
    (/\ r_pc = "done"
     /\ r_op = "read"
     /\ CalMissing(r_cal)
     /\ raw_read_validate(r_tf, r_delay) = "")
    => /\ r_out.status = "ValueError"
       /\ r_out.msg = "Calibration values are not set."
       /\ r_sent = <<>>

\* C20: set_bit with a bit index outside 0..7 raises ValueError and leaves
\* the bit states as they were; with an index in 0..7 it raises nothing and
\* changes that bit and no other.
C20_SetBitBounds ==
    [][g_calls' # g_calls =>
          IF g_call'.bit \in 0..(NBits - 1)
          THEN /\ g_err' = "none"
               /\ bit_states' =
                      [bit_states EXCEPT ![g_call'.bit + 1] = g_call'.state]
          ELSE /\ g_err' = "ValueError"
               /\ bit_states' = bit_states]_vars

====
